---- MODULE Spec2Model ----
(***************************************************************************)
(* The generation workflow of the Help My Barber page (web/src/app/page.tsx *)
(* with the ImageUpload and ResultsDisplay components and the ApiService    *)
(* client).  The React state of Home is the state of the model; every      *)
(* event handler and every continuation of an awaited promise is one       *)
(* action.  A handler reads the state it captured when it was called and   *)
(* writes through the setters, as the closures of the component do.        *)
(* frontCalls, angleCalls and requests keep the calls made and the         *)
(* requests issued, so that the claims can speak of them; scen observes    *)
(* one generateFront, generateAngles sequence.                             *)
(***************************************************************************)
EXTENDS Integers, Sequences, FiniteSets, TLC

\* ------------------------------------------------------------------ bounds
MaxUploads == 2
MaxFrontCalls == 2
MaxAngleCalls == 1

\* ------------------------------------------------------- program constants
\* const MAX_SIZE_BYTES = 0.5 * 1024 * 1024
MAX_SIZE_BYTES == 524288

\* ------------------------------------------------------------ value domains
\* null, and strings built by concatenation, are sequences of tokens.
Null == <<>>

Str(s) == <<s>>

\* JavaScript truthiness of a string | null | undefined value: null and the
\* empty string are falsy.
Truthy(v) == v # Null /\ v # <<"">>

\* a || b on string | null values
OrElse(a, b) == IF Truthy(a) THEN a ELSE b

\* File names are sequences of characters.
LowerOf ==
  [c \in {"H", "E", "I", "C", "F", "J", "P", "G", "S", "T", "M", "L"} |->
     CASE c = "H" -> "h" [] c = "E" -> "e" [] c = "I" -> "i" [] c = "C" -> "c"
       [] c = "F" -> "f" [] c = "J" -> "j" [] c = "P" -> "p" [] c = "G" -> "g"
       [] c = "S" -> "s" [] c = "T" -> "t" [] c = "M" -> "m" [] c = "L" -> "l"]

\* String.prototype.toLowerCase
toLowerCase(name) ==
  [i \in 1..Len(name) |-> IF name[i] \in DOMAIN LowerOf THEN LowerOf[name[i]] ELSE name[i]]

\* String.prototype.endsWith
endsWith(name, suffix) ==
  /\ Len(name) >= Len(suffix)
  /\ SubSeq(name, Len(name) - Len(suffix) + 1, Len(name)) = suffix

heic == <<"h", "e", "i", "c">>

heif == <<"h", "e", "i", "f">>

\* The files the user can pick: name, declared type, byte length.
FileCatalogue ==
  { [name |-> <<"a", ".", "j", "p", "g">>, type |-> "image/jpeg", size |-> 524288],
    [name |-> <<"h", "e", "i", "c", ".", "J", "P", "G">>, type |-> "image/jpeg", size |-> 524289],
    [name |-> <<"c", ".", "h", "e", "i", "c">>, type |-> "image/heic", size |-> 524288],
    [name |-> <<"d", ".", "H", "E", "I", "F">>, type |-> "image/heif", size |-> 524289],
    [name |-> <<"n", ".", "t", "x", "t">>, type |-> "text/plain", size |-> 524288] }

\* The texts the user can type into the prompt input ("" is the empty input).
Prompts == {"fade", "buzz"}

\* Byte lengths of the compressed copy compressImage resolves with for the
\* budget MAX_SIZE_BYTES * 0.9.
CompressedSizes == {400000}

\* What a rejected compressImage can reject with: loadImage rejects with the
\* error event of the image, compress throws an Error.
CompressErrors ==
  { [isError |-> TRUE, message |-> "could not generate canvas context", string |-> "Error"],
    [isError |-> FALSE, message |-> "", string |-> "[object Event]"] }

VARIABLES
  uploadedImage,   \* useState<string | null>: the preview data URL
  uploadedFile,    \* useState<File | null>
  results,         \* useState<ImageVariation[]>
  loading,         \* useState(false)
  anglesLoading,   \* useState(false)
  error,           \* useState<string | null>
  prompt,          \* useState<string>('')
  pendingReads,    \* FileReader.readAsDataURL calls whose onload has not fired
  nFiles,          \* number of files picked so far
  frontCalls,      \* the handleGenerateReference calls, in call order
  angleCalls,      \* the handleGenerateAngles calls, in call order
  requests,        \* the ApiService.generateHaircuts calls, in issue order
  scen,            \* observer: progress of a generateFront, generateAngles sequence
  eng,             \* one compressImage call: its locals and its position
  fn               \* one call of a utility on its own: its input and its result

\* The state of Home and what is recorded about its calls.
pageVars ==
  << uploadedImage, uploadedFile, results, loading, anglesLoading, error, prompt,
     pendingReads, nFiles, frontCalls, angleCalls, requests, scen >>

vars ==
  << uploadedImage, uploadedFile, results, loading, anglesLoading, error, prompt,
     pendingReads, nFiles, frontCalls, angleCalls, requests, scen, eng, fn >>

\* ------------------------------------------------------------- pure helpers
\* FileReader.readAsDataURL: the data URL of the file's bytes.  The bytes of a
\* file are identified by the upload they come from and by whether they are
\* a re-encoded copy.
readAsDataURL(f) ==
  [scheme |-> "data:", mime |-> f.type,
   payload |-> [src |-> f.id, compressed |-> f.compressed, size |-> f.size]]

\* fileToBase64: the part of the data URL after the first comma.
fileToBase64(f) ==
  LET result == readAsDataURL(f)
  IN IF result.scheme = "data:" THEN result.payload ELSE result

\* results.some(r => r.angle === 'front')
hasFrontResult == \E i \in 1..Len(results) : results[i].angle = "front"

\* results.some(r => r.angle === 'side' || r.angle === 'back')
hasAngles == \E i \in 1..Len(results) : results[i].angle \in {"side", "back"}

ScenNone == [st |-> "none", fc |-> 0, ac |-> 0, front |-> <<>>]

\* No compressImage call has been made.
EngIdle ==
  [pc |-> "idle", size |-> 0, target10 |-> 0, quality |-> <<0, 1>>, scaleSq |-> <<0, 1>>,
   passes |-> 0, outs |-> <<>>, result |-> 0, fault |-> "none", first |-> 0,
   error |-> [isError |-> FALSE, message |-> "", string |-> ""]]

\* No utility (ApiService.generateHaircuts, validateFile, validatePrompt,
\* fileToBase64) has been called.
FnIdle == <<>>

\* Home before any event.
InitPage ==
  /\ uploadedImage = Null
  /\ uploadedFile = Null
  /\ results = <<>>
  /\ loading = FALSE
  /\ anglesLoading = FALSE
  /\ error = Null
  /\ prompt = ""
  /\ pendingReads = {}
  /\ nFiles = 0
  /\ frontCalls = <<>>
  /\ angleCalls = <<>>
  /\ requests = <<>>
  /\ scen = ScenNone

Init ==
  /\ InitPage
  /\ eng = EngIdle
  /\ fn = FnIdle

\* ------------------------------------------------------------------ upload
\* The File object of a picked catalogue entry.
NewFile(c, id) ==
  [id |-> id, name |-> c.name, type |-> c.type, size |-> c.size, compressed |-> FALSE]

\* file.type.startsWith('image/')
IsImageType(t) == t \in {"image/jpeg", "image/heic", "image/heif", "image/png"}

\* ImageUpload.handleFileSelect: shown while there is no preview.
handleFileSelect ==
  /\ uploadedImage = Null
  /\ nFiles < MaxUploads
  /\ \E c \in FileCatalogue :
       /\ nFiles' = nFiles + 1
       /\ pendingReads' =
            IF IsImageType(c.type) THEN pendingReads \cup {NewFile(c, nFiles + 1)}
            ELSE pendingReads
  /\ scen' = ScenNone
  /\ UNCHANGED << eng, fn, uploadedImage, uploadedFile, results, loading, anglesLoading, error,
                  prompt, frontCalls, angleCalls, requests >>

\* The change-photo input of Home: shown while there is a preview.
changePhoto ==
  /\ uploadedImage # Null
  /\ nFiles < MaxUploads
  /\ \E c \in FileCatalogue :
       /\ nFiles' = nFiles + 1
       /\ pendingReads' = pendingReads \cup {NewFile(c, nFiles + 1)}
  /\ scen' = ScenNone
  /\ UNCHANGED << eng, fn, uploadedImage, uploadedFile, results, loading, anglesLoading, error,
                  prompt, frontCalls, angleCalls, requests >>

\* Mutant: the name compared without toLowerCase.
IsUnsupportedNameCaseSensitive(name) ==
  endsWith(name, heic) \/ endsWith(name, heif)

\* The test of handleImageUpload on the file name.
IsUnsupportedName(name) ==
  endsWith(toLowerCase(name), heic) \/ endsWith(toLowerCase(name), heif)

HeicMessage == Str("HEIC images are not supported. Please convert to jpg or png")

\* Mutant: an accepted upload that forgets setResults([]).
handleImageUploadKeepingResults(imageDataUrl, file) ==
  IF IsUnsupportedName(file.name)
  THEN /\ error' = HeicMessage
       /\ UNCHANGED << uploadedImage, uploadedFile, results, prompt >>
  ELSE /\ uploadedImage' = <<imageDataUrl>>
       /\ uploadedFile' = <<file>>
       /\ error' = Null
       /\ prompt' = ""
       /\ UNCHANGED results

\* handleImageUpload(imageDataUrl, file)
handleImageUpload(imageDataUrl, file) ==
  IF IsUnsupportedName(file.name)
  THEN /\ error' = HeicMessage
       /\ UNCHANGED << uploadedImage, uploadedFile, results, prompt >>
  ELSE /\ uploadedImage' = <<imageDataUrl>>
       /\ uploadedFile' = <<file>>
       /\ results' = <<>>
       /\ error' = Null
       /\ prompt' = ""

\* reader.onload of either file input
readerOnload ==
  \E f \in pendingReads :
    /\ pendingReads' = pendingReads \ {f}
    /\ handleImageUpload(readAsDataURL(f), f)
    /\ scen' = ScenNone
    /\ UNCHANGED << eng, fn, loading, anglesLoading, nFiles, frontCalls, angleCalls, requests >>

\* ------------------------------------------------------- ApiService client
\* What fetch and response.json() can do for one request: a JSON body, a
\* non-2xx status, a rejected fetch, or a body that does not parse.
NoData == [success |-> FALSE, variations |-> <<>>, message |-> Null]

HttpStatuses == {404, 429, 500, 503}

ServiceMessages == {Null, Str(""), Str("service message")}

\* The variations the service returns for a request: one front image for a
\* front request, side and back images for an angles request (api.ts,
\* GenerateHaircutsResponse).  An image is identified by its request.
ServiceVariations(req, isAngles) ==
  IF isAngles
  THEN { <<>>,
         << [image |-> req, angle |-> "side"] >>,
         << [image |-> req, angle |-> "side"], [image |-> req, angle |-> "back"] >> }
  ELSE { <<>>, << [image |-> req, angle |-> "front"] >> }

FetchOutcomes(req, isAngles) ==
  { [kind |-> "json", status |-> 200, data |-> [success |-> s, variations |-> v, message |-> m]] :
      s \in BOOLEAN, v \in ServiceVariations(req, isAngles), m \in ServiceMessages }
  \cup { [kind |-> "http", status |-> st, data |-> NoData] : st \in HttpStatuses }
  \cup { [kind |-> k, status |-> 0, data |-> NoData] : k \in {"TypeError", "Error", "badjson"} }

\* getErrorMessage(error, response)
getErrorMessage(errorIsTypeError, hasResponse, status) ==
  IF hasResponse /\ status = 429
    THEN Str("Too many requests. Please wait a minute before trying again.")
  ELSE IF hasResponse /\ status >= 500
    THEN Str("Server error. Please try again.")
  ELSE IF errorIsTypeError
    THEN Str("Connection failed. Please check your internet and try again.")
  ELSE Str("Something went wrong. Please try again.")

\* The try block of ApiService.generateHaircuts (lines 38-63): it returns a
\* value or throws.  A non-2xx status throws new Error(getErrorMessage(null,
\* response)) at line 50; a rejected fetch throws a TypeError (network) or
\* another Error; a body that is not JSON makes response.json() throw a
\* SyntaxError.
tryBlock(o) ==
  CASE o.kind = "json" ->
         [threw |-> FALSE, isTypeError |-> FALSE, message |-> Null,
          value |-> IF ~o.data.success /\ Truthy(o.data.message)
                    THEN [success |-> FALSE, variations |-> <<>>, message |-> o.data.message]
                    ELSE o.data]
    [] o.kind = "http" ->
         [threw |-> TRUE, isTypeError |-> FALSE,
          message |-> getErrorMessage(FALSE, TRUE, o.status), value |-> NoData]
    [] o.kind = "TypeError" ->
         [threw |-> TRUE, isTypeError |-> TRUE, message |-> Str("Failed to fetch"),
          value |-> NoData]
    [] o.kind = "Error" ->
         [threw |-> TRUE, isTypeError |-> FALSE, message |-> Str("aborted"), value |-> NoData]
    [] o.kind = "badjson" ->
         [threw |-> TRUE, isTypeError |-> FALSE, message |-> Str("Unexpected token"),
          value |-> NoData]

\* Mutant: the catch clause handles connectivity errors and rethrows the rest.
generateHaircutsRethrowing(o) ==
  LET t == tryBlock(o)
  IN IF ~t.threw THEN [state |-> "fulfilled", value |-> t.value]
     ELSE IF t.isTypeError
       THEN [state |-> "fulfilled",
             value |-> [success |-> FALSE, variations |-> <<>>,
                        message |-> getErrorMessage(TRUE, FALSE, 0)]]
     ELSE [state |-> "rejected", value |-> NoData]

\* The promise of ApiService.generateHaircuts: the catch clause of lines
\* 64-70 returns a value built with getErrorMessage(error, undefined).
generateHaircutsPromise(o) ==
  LET t == tryBlock(o)
  IN IF ~t.threw THEN [state |-> "fulfilled", value |-> t.value]
     ELSE [state |-> "fulfilled",
           value |-> [success |-> FALSE, variations |-> <<>>,
                      message |-> getErrorMessage(t.isTypeError, FALSE, 0)]]

\* ApiService.generateHaircuts: the value its promise resolves with.
generateHaircuts(o) == generateHaircutsPromise(o).value

\* One call of ApiService.generateHaircuts on its own: fetch settles with o.
generateHaircutsCall ==
  /\ eng = EngIdle
  /\ fn = FnIdle
  /\ \E isAngles \in BOOLEAN :
       \E o \in FetchOutcomes(1, isAngles) :
         fn' = << [op |-> "generateHaircuts", o |-> o, isAngles |-> isAngles, promise |-> generateHaircutsPromise(o)] >>
  /\ UNCHANGED << eng, pageVars >>

\* -------------------------------------------------------------- validation
\* const allowedTypes
allowedTypes == {"image/jpeg", "image/jpg", "image/png", "image/webp"}

\* const maxSize = 10 * 1024 * 1024
maxSize == 10 * 1024 * 1024

\* Mutant: a file of exactly maxSize bytes is too large.
validateFileStrictMax(file) ==
  IF file.type \notin allowedTypes
    THEN Str("Please select a JPG, PNG, or WebP image file.")
  ELSE IF file.size >= maxSize
    THEN Str("File size too large. Please select an image under 10MB.")
  ELSE IF file.size < 1000
    THEN Str("File appears to be too small or corrupted.")
  ELSE Null

\* validateFile(file)
validateFile(file) ==
  IF file.type \notin allowedTypes
    THEN Str("Please select a JPG, PNG, or WebP image file.")
  ELSE IF file.size > maxSize
    THEN Str("File size too large. Please select an image under 10MB.")
  ELSE IF file.size < 1000
    THEN Str("File appears to be too small or corrupted.")
  ELSE Null

\* The files validateFile is called with: declared type and byte length.
ValidateFileInputs ==
  { [type |-> t, size |-> n] :
      t \in {"image/jpeg", "image/jpg", "image/png", "image/webp", "image/gif",
             "image/heic", "text/plain", ""},
      n \in {0, 500, 999, 1000, 1024, 524288, 10485760, 10485761} }

\* One call of validateFile on its own.
validateFileCall ==
  /\ eng = EngIdle
  /\ fn = FnIdle
  /\ \E file \in ValidateFileInputs :
       fn' = << [op |-> "validateFile", file |-> file, out |-> validateFile(file)] >>
  /\ UNCHANGED << eng, pageVars >>

\* A text of n characters c.
Repeat(c, n) == [i \in 1..n |-> c]

\* White space that String.prototype.trim removes.
Whitespace == {" ", "\t", "\n"}

\* String.prototype.trim
trim(s) ==
  LET kept == { i \in 1..Len(s) : s[i] \notin Whitespace }
  IN IF kept = {} THEN <<>>
     ELSE SubSeq(s, CHOOSE i \in kept : \A j \in kept : i <= j,
                    CHOOSE i \in kept : \A j \in kept : i >= j)

\* String.prototype.includes, for a word that is not empty
includes(s, word) ==
  \E i \in 1..(Len(s) - Len(word) + 1) : SubSeq(s, i, i + Len(word) - 1) = word

\* const blockedWords
blockedWords ==
  << << "s", "c", "r", "i", "p", "t" >>,
     << "j", "a", "v", "a", "s", "c", "r", "i", "p", "t" >>,
     << "h", "t", "m", "l" >>,
     << "c", "s", "s" >>,
     << "<", "s", "c", "r", "i", "p", "t" >>,
     << "<", "/", "s", "c", "r", "i", "p", "t" >> >>

\* Mutant: the length test before the emptiness test.
validatePromptLengthFirst(text) ==
  IF Len(text) > 500
    THEN Str("Description is too long. Please keep it under 500 characters.")
  ELSE IF Len(trim(text)) = 0
    THEN Str("Please enter a description for your desired haircut.")
  ELSE IF \E k \in 1..Len(blockedWords) : includes(toLowerCase(text), blockedWords[k])
    THEN Str("Please use a different description for your haircut.")
  ELSE Null

\* validatePrompt(prompt)
validatePrompt(text) ==
  IF Len(trim(text)) = 0
    THEN Str("Please enter a description for your desired haircut.")
  ELSE IF Len(text) > 500
    THEN Str("Description is too long. Please keep it under 500 characters.")
  ELSE IF \E k \in 1..Len(blockedWords) : includes(toLowerCase(text), blockedWords[k])
    THEN Str("Please use a different description for your haircut.")
  ELSE Null

\* The texts validatePrompt is called with.
ValidatePromptInputs ==
  { <<>>,
    << " ", "\t" >>,
    Repeat(" ", 501),
    Repeat("a", 500),
    Repeat("a", 501),
    << " " >> \o Repeat("a", 499) \o << " " >>,
    << "c", "s", "s" >> \o Repeat("a", 498),
    << "c", "s", "s" >> \o Repeat("a", 497),
    << "f", "a", "d", "e" >>,
    << " ", "f", "a", "d", "e", " " >>,
    << "s", "c", "r", "i", "p" >>,
    << "m", "y", " ", "C", "S", "S", " ", "c", "u", "t" >>,
    << "J", "a", "v", "a", "S", "c", "r", "i", "p", "t" >>,
    << "H", "T", "M", "L" >>,
    << "<", "s", "c", "r", "i", "p", "t", ">" >> }

\* One call of validatePrompt on its own.
validatePromptCall ==
  /\ eng = EngIdle
  /\ fn = FnIdle
  /\ \E text \in ValidatePromptInputs :
       fn' = << [op |-> "validatePrompt", text |-> text, out |-> validatePrompt(text)] >>
  /\ UNCHANGED << eng, pageVars >>

\* ------------------------------------------------- transport encoding
\* fileToBase64 on the text of the reader result, character by character.
\* (The workflow above uses fileToBase64(f), the same function on the parts
\* of the data URL.)
\* String.prototype.startsWith
startsWith(s, prefix) ==
  /\ Len(s) >= Len(prefix)
  /\ SubSeq(s, 1, Len(prefix)) = prefix

\* The value undefined
Undefined == << "undefined value" >>

\* s.split(sep)[1]: the text between the first and the second sep, undefined
\* when s has no sep.
splitSecond(s, sep) ==
  LET at == { i \in 1..Len(s) : s[i] = sep }
  IN IF at = {} THEN Undefined
     ELSE LET first == CHOOSE i \in at : \A j \in at : i <= j
              later == { i \in at : i > first }
              stop == IF later = {} THEN Len(s) + 1
                      ELSE CHOOSE i \in later : \A j \in later : i <= j
          IN SubSeq(s, first + 1, stop - 1)

\* What the FileReader of fileToBase64 can do: load with a result text, or
\* fail.  readAsDataURL gives "data:<type>;base64,<payload>", with a payload
\* of base64 characters; a reader that gives another text is what the tests
\* of fileToBase64 use.
ReaderOutcomes ==
  { [kind |-> "load", result |-> r] :
      r \in { << "d", "a", "t", "a", ":", "i", "m", "a", "g", "e", "/", "j", "p", "e", "g", ";", "b", "a", "s", "e", "6", "4", ",", "t", "e", "s", "t", "d", "a", "t", "a" >>,
              << "d", "a", "t", "a", ":", "i", "m", "a", "g", "e", "/", "p", "n", "g", ";", "b", "a", "s", "e", "6", "4", ",", "i", "V", "B", "O", "+", "/", "8", "=" >>,
              << "d", "a", "t", "a", ":", ";", "b", "a", "s", "e", "6", "4", "," >>,
              << "r", "a", "w", "d", "a", "t", "a" >>,
              << "x", "d", "a", "t", "a", ":", "a", ",", "b" >> } }
  \cup { [kind |-> "error", result |-> <<>>] }

\* Mutant: the result resolved as it is read.
fileToBase64PromiseUnstripped(outcome) ==
  IF outcome.kind = "error"
  THEN [state |-> "rejected", value |-> <<>>, message |-> "Failed to read file"]
  ELSE [state |-> "fulfilled", value |-> outcome.result, message |-> ""]

\* The promise of fileToBase64: reader.onload and reader.onerror.
fileToBase64Promise(outcome) ==
  IF outcome.kind = "error"
  THEN [state |-> "rejected", value |-> <<>>, message |-> "Failed to read file"]
  ELSE [state |-> "fulfilled",
        value |-> IF startsWith(outcome.result, << "d", "a", "t", "a", ":" >>)
                  THEN splitSecond(outcome.result, ",")
                  ELSE outcome.result,
        message |-> ""]

\* One call of fileToBase64 on its own.
fileToBase64Call ==
  /\ eng = EngIdle
  /\ fn = FnIdle
  /\ \E outcome \in ReaderOutcomes :
       fn' = << [op |-> "fileToBase64", reader |-> outcome,
                 promise |-> fileToBase64Promise(outcome)] >>
  /\ UNCHANGED << eng, pageVars >>

\* -------------------------------------------------- compression engine
\* compressImage computes with fractions (targetSize / imageFile.size, the
\* factors 1.5, 0.8, 0.7, 0.1).  They are kept exact, as pairs
\* << numerator, denominator >> in lowest terms.
RECURSIVE GCD(_, _)
GCD(a, b) == IF b = 0 THEN a ELSE GCD(b, a % b)

Rat(n, d) == LET g == GCD(n, d) IN << n \div g, d \div g >>

RatMul(p, q) == Rat(p[1] * q[1], p[2] * q[2])

RatLess(p, q) == p[1] * q[2] < q[1] * p[2]

\* Math.min
RatMin(p, q) == IF RatLess(q, p) THEN q ELSE p

\* Mutant: the seed quality is capped at 1.2.
QualityCapOver == << 6, 5 >>

\* Math.min(0.8, ...) of line 361
QualityCap == << 4, 5 >>

\* Mutant: the loop stops at quality 0.05.
QualityFloorLow == << 1, 20 >>

\* quality > 0.1 of line 385
QualityFloor == << 1, 10 >>

\* Mutant: each further pass halves the quality.
QualityStepHalf == << 1, 2 >>

\* Mutant: the loop re-encodes at the same quality.
QualityStepOne == << 1, 1 >>

\* quality *= 0.7 of line 386
QualityStep == << 7, 10 >>

\* The calls made of compressImage(imageFile, targetSize): the byte length
\* of the source and the target in tenths of a byte (MAX_SIZE_BYTES * 0.9 is
\* 471859.2).  4718592 is the budget of page.tsx, 10485760 the default
\* targetSize of 1024 * 1024.
EngineInputs ==
  { [size |-> 1000000, target10 |-> 4500000],
    [size |-> 1048576, target10 |-> 4718592],
    [size |-> 2097152, target10 |-> 4718592],
    [size |-> 10485760, target10 |-> 4718592],
    [size |-> 524289, target10 |-> 4718592],
    [size |-> 1000000, target10 |-> 10485760] }

\* Byte lengths of the blob the canvas encoder can produce in one pass; any of
\* them can come out of any pass.
EncoderSizes == {300000, 400000, 600000, 700000}

\* canvas.toBlob can call back with null.
EncoderBlobs == { << b >> : b \in EncoderSizes } \cup { Null }

\* new Error('could not generate canvas context') of line 366
ContextError ==
  [isError |-> TRUE, message |-> "could not generate canvas context", string |-> "Error"]

\* The error Event that img.onerror passes to reject (line 397)
DecodeError == [isError |-> FALSE, message |-> "", string |-> "[object Event]"]

\* compressImage(imageFile, targetSize) up to await loadImage(imageFile)
compressImage ==
  /\ eng = EngIdle
  /\ fn = FnIdle
  /\ \E in \in EngineInputs :
       eng' = [EngIdle EXCEPT !.pc = "load", !.size = in.size, !.target10 = in.target10]
  /\ UNCHANGED << fn, pageVars >>

\* compressImage called again, on the file the call before returned and with
\* the same targetSize; first keeps the byte length of that file.
compressImageAgain ==
  /\ eng.pc = "done"
  /\ eng.first = 0
  /\ eng' = [EngIdle EXCEPT !.pc = "load", !.size = eng.result,
                            !.target10 = eng.target10, !.first = eng.result]
  /\ UNCHANGED << fn, pageVars >>

\* compress(q, s) up to canvas.toBlob: the executor of the Promise runs at
\* once; a throw inside it rejects the promise, so await compress(...)
\* rejects and compressImage rejects with it.  ctx is whether getContext
\* returned a context.
compress(e, ctx) ==
  IF ~ctx
  THEN [e EXCEPT !.pc = "rejected", !.fault = "context", !.error = ContextError]
  ELSE [e EXCEPT !.pc = "encode", !.passes = @ + 1]

\* Mutant: a source already within the target is returned as it is, with no
\* encode pass.
loadImageResolvedShortCircuit ==
  /\ eng.pc = "load"
  /\ \E ctx \in BOOLEAN :
       LET compressionNeeded == Rat(eng.target10, 10 * eng.size)
           quality == RatMin(QualityCap, RatMul(compressionNeeded, << 3, 2 >>))
           scaleSq == IF RatLess(compressionNeeded, << 1, 2 >>)
                      THEN RatMul(compressionNeeded, << 2, 1 >>)
                      ELSE << 1, 1 >>
       IN IF 10 * eng.size <= eng.target10
          THEN eng' = [eng EXCEPT !.pc = "done", !.result = eng.size]
          ELSE eng' = compress([eng EXCEPT !.quality = quality, !.scaleSq = scaleSq], ctx)
  /\ UNCHANGED << fn, pageVars >>

\* img.onload: lines 360-362 and the first compress(quality, scale).  The
\* scale is kept as its square, compressionNeeded * 2.
loadImageResolved ==
  /\ eng.pc = "load"
  /\ \E ctx \in BOOLEAN :
       LET compressionNeeded == Rat(eng.target10, 10 * eng.size)
           quality == RatMin(QualityCap, RatMul(compressionNeeded, << 3, 2 >>))
           scaleSq == IF RatLess(compressionNeeded, << 1, 2 >>)
                      THEN RatMul(compressionNeeded, << 2, 1 >>)
                      ELSE << 1, 1 >>
       IN eng' = compress([eng EXCEPT !.quality = quality, !.scaleSq = scaleSq], ctx)
  /\ UNCHANGED << fn, pageVars >>

\* img.onerror: loadImage rejects and compressImage rejects with it.
loadImageRejected ==
  /\ eng.pc = "load"
  /\ eng' = [eng EXCEPT !.pc = "rejected", !.fault = "decode", !.error = DecodeError]
  /\ UNCHANGED << fn, pageVars >>

\* Mutant: the loop runs down to the quality floor whatever the size.
keepCompressingToFloor(size, target10, quality) == RatLess(QualityFloor, quality)

\* Mutant: the loop stops at quality 0.5.
keepCompressingHighFloor(size, target10, quality) ==
  /\ 10 * size > target10
  /\ RatLess(<< 1, 2 >>, quality)

\* The loop test of line 385: result.size > targetSize && quality > 0.1
keepCompressing(size, target10, quality) ==
  /\ 10 * size > target10
  /\ RatLess(QualityFloor, quality)

\* The callback of canvas.toBlob (lines 372-380) and what follows the await
\* of compress: the loop of lines 385-388 and the return of line 389.  With
\* a null blob the callback throws; nothing resolves or rejects the promise
\* of compress, so compressImage stays pending.
toBlobCallback ==
  /\ eng.pc = "encode"
  /\ \E blob \in EncoderBlobs :
       IF blob = Null
       THEN eng' = [eng EXCEPT !.pc = "pending", !.fault = "blob"]
       ELSE LET got == [eng EXCEPT !.result = blob[1], !.outs = Append(@, blob[1])]
            IN IF keepCompressing(got.result, got.target10, got.quality)
               THEN \E ctx \in BOOLEAN :
                      eng' = compress([got EXCEPT !.quality = RatMul(@, QualityStep)], ctx)
               ELSE eng' = [got EXCEPT !.pc = "done"]
  /\ UNCHANGED << fn, pageVars >>

\* ---------------------------------------------------------- generateFront
\* The request a call issues; "call" says which call issued it.
Request(call, promptText, imageData, angles) ==
  [call |-> call, prompt |-> promptText, imageData |-> imageData, generateAngles |-> angles]

\* An element of a sequence replaced.
Put(seq, i, v) == [seq EXCEPT ![i] = v]

\* Mutant: the size test of line 44 with >= for >.
needsCompressionAtThreshold(f) == f.size >= MAX_SIZE_BYTES

\* if (uploadedFile.size > MAX_SIZE_BYTES) of line 44
needsCompression(f) == f.size > MAX_SIZE_BYTES

\* MAX_SIZE_BYTES * 0.9 of line 47, in tenths of a byte
CompressBudget10 == MAX_SIZE_BYTES * 9

\* Mutant: the call without its setError(null).
handleGenerateReferenceKeepingError(promptText) ==
  IF uploadedFile = Null
  THEN UNCHANGED vars
  ELSE LET f == uploadedFile[1]
           id == Len(frontCalls) + 1
       IN /\ loading' = TRUE
          /\ prompt' = promptText
          /\ frontCalls' = Append(frontCalls,
               [file |-> f, promptText |-> promptText, fileToProcess |-> f, req |-> 0,
                pc |-> IF needsCompression(f) THEN "compress" ELSE "encode",
                compressCalls |-> IF needsCompression(f) THEN 1 ELSE 0,
                budget10 |-> IF needsCompression(f) THEN CompressBudget10 ELSE 0,
                out |-> "pending"])
          /\ scen' = [st |-> "front", fc |-> id, ac |-> 0, front |-> <<>>]
          /\ UNCHANGED << error, eng, fn, uploadedImage, uploadedFile, results, anglesLoading,
                          pendingReads, nFiles, angleCalls, requests >>

\* handleGenerateReference(promptText), up to its first await.  compressCalls
\* counts the compressImage calls of the call and budget10 is the targetSize
\* passed, in tenths of a byte.
handleGenerateReference(promptText) ==
  IF uploadedFile = Null
  THEN UNCHANGED vars
  ELSE LET f == uploadedFile[1]
           id == Len(frontCalls) + 1
       IN /\ loading' = TRUE
          /\ error' = Null
          /\ prompt' = promptText
          /\ frontCalls' = Append(frontCalls,
               [file |-> f, promptText |-> promptText, fileToProcess |-> f, req |-> 0,
                pc |-> IF needsCompression(f) THEN "compress" ELSE "encode",
                compressCalls |-> IF needsCompression(f) THEN 1 ELSE 0,
                budget10 |-> IF needsCompression(f) THEN CompressBudget10 ELSE 0,
                out |-> "pending"])
          /\ scen' = [st |-> "front", fc |-> id, ac |-> 0, front |-> <<>>]
          /\ UNCHANGED << eng, fn, uploadedImage, uploadedFile, results, anglesLoading,
                          pendingReads, nFiles, angleCalls, requests >>

\* The form of Home is rendered while there is a preview; its text input is
\* required, so an empty prompt is never submitted.
\* The submit button: <button type="submit" disabled={loading}>.
submitClick ==
  /\ uploadedImage # Null
  /\ ~loading
  /\ Len(frontCalls) < MaxFrontCalls
  /\ \E p \in Prompts : handleGenerateReference(p)

\* onKeyDown of the prompt input: Enter calls form.requestSubmit().
enterKeySubmit ==
  /\ uploadedImage # Null
  /\ Len(frontCalls) < MaxFrontCalls
  /\ \E p \in Prompts : handleGenerateReference(p)

\* The observer after a step of front call i that does not end the call.
ScenFrontStep(i) == IF scen.st = "front" /\ scen.fc = i THEN scen ELSE ScenNone

\* String(e) and e.message of the template of line 57
CompressionFailedMessage(e) ==
  <<"Image compression failed!, ", IF e.isError THEN e.message ELSE e.string>>

\* The File that compressImage builds from the encoder's blob.
CompressedFile(f, size) ==
  [id |-> f.id, name |-> f.name, type |-> "image/jpeg", size |-> size, compressed |-> TRUE]

\* await compressImage(uploadedFile, MAX_SIZE_BYTES * 0.9) resolves.  It
\* resolves with the File built from the encoder's blob, never with null, so
\* the !compressedFile branch of lines 49-52 is not taken.
compressResolved(i) ==
  /\ frontCalls[i].pc = "compress"
  /\ \E size \in CompressedSizes :
       LET c == CompressedFile(frontCalls[i].file, size)
       IN /\ uploadedFile' = <<c>>
          /\ frontCalls' = Put(frontCalls, i,
               [frontCalls[i] EXCEPT !.fileToProcess = c, !.pc = "encode"])
  /\ scen' = ScenFrontStep(i)
  /\ UNCHANGED << eng, fn, uploadedImage, results, loading, anglesLoading, error, prompt,
                  pendingReads, nFiles, angleCalls, requests >>

\* Mutant: the catch clause without its return, so the call goes on to
\* encode the original file.
compressRejectedContinuing(i, e) ==
  /\ frontCalls[i].pc = "compress"
  /\ error' = CompressionFailedMessage(e)
  /\ loading' = FALSE
  /\ frontCalls' = Put(frontCalls, i, [frontCalls[i] EXCEPT !.pc = "encode"])
  /\ scen' = ScenNone
  /\ UNCHANGED << eng, fn, uploadedImage, uploadedFile, results, anglesLoading, prompt,
                  pendingReads, nFiles, angleCalls, requests >>

\* Mutant: the catch clause without its setLoading(false).
compressRejectedKeepsLoading(i, e) ==
  /\ frontCalls[i].pc = "compress"
  /\ error' = CompressionFailedMessage(e)
  /\ frontCalls' = Put(frontCalls, i,
       [frontCalls[i] EXCEPT !.pc = "done", !.out = "failed"])
  /\ scen' = ScenNone
  /\ UNCHANGED << eng, fn, uploadedImage, uploadedFile, results, loading, anglesLoading,
                  prompt, pendingReads, nFiles, angleCalls, requests >>

\* await compressImage(...) rejects with e: the catch clause of lines 56-60.
compressRejectedWith(i, e) ==
  /\ frontCalls[i].pc = "compress"
  /\ error' = CompressionFailedMessage(e)
  /\ loading' = FALSE
  /\ frontCalls' = Put(frontCalls, i,
       [frontCalls[i] EXCEPT !.pc = "done", !.out = "failed"])
  /\ scen' = ScenNone
  /\ UNCHANGED << eng, fn, uploadedImage, uploadedFile, results, anglesLoading, prompt,
                  pendingReads, nFiles, angleCalls, requests >>

compressRejected(i) == \E e \in CompressErrors : compressRejectedWith(i, e)

\* Mutant: the captured uploadedFile is encoded instead of fileToProcess.
frontEncodedOriginal(i) ==
  /\ frontCalls[i].pc = "encode"
  /\ requests' = Append(requests,
       Request(<<"front", i>>, frontCalls[i].promptText,
               fileToBase64(frontCalls[i].file), FALSE))
  /\ frontCalls' = Put(frontCalls, i,
       [frontCalls[i] EXCEPT !.pc = "request", !.req = Len(requests) + 1])
  /\ scen' = ScenFrontStep(i)
  /\ UNCHANGED << eng, fn, uploadedImage, uploadedFile, results, loading, anglesLoading, error,
                  prompt, pendingReads, nFiles, angleCalls >>

\* await fileToBase64(fileToProcess) resolves and the request is issued.
frontEncoded(i) ==
  /\ frontCalls[i].pc = "encode"
  /\ requests' = Append(requests,
       Request(<<"front", i>>, frontCalls[i].promptText,
               fileToBase64(frontCalls[i].fileToProcess), FALSE))
  /\ frontCalls' = Put(frontCalls, i,
       [frontCalls[i] EXCEPT !.pc = "request", !.req = Len(requests) + 1])
  /\ scen' = ScenFrontStep(i)
  /\ UNCHANGED << eng, fn, uploadedImage, uploadedFile, results, loading, anglesLoading, error,
                  prompt, pendingReads, nFiles, angleCalls >>

FrontTransportMessage == Str("Failed to generate reference image. Please try again.")

FrontFallbackMessage == Str("Failed to generate reference image")

\* await fileToBase64(fileToProcess) rejects: catch and finally of lines 77-81.
frontEncodeFailed(i) ==
  /\ frontCalls[i].pc = "encode"
  /\ error' = FrontTransportMessage
  /\ loading' = FALSE
  /\ frontCalls' = Put(frontCalls, i,
       [frontCalls[i] EXCEPT !.pc = "done", !.out = "failed"])
  /\ scen' = ScenNone
  /\ UNCHANGED << eng, fn, uploadedImage, uploadedFile, results, anglesLoading, prompt,
                  pendingReads, nFiles, angleCalls, requests >>

\* Mutant: the success test without the length test.
SucceededWhateverLength(response) == response.success

\* response.success && response.variations.length > 0
Succeeded(response) == response.success /\ Len(response.variations) > 0

\* Mutant: a response that did not succeed empties the result set.
frontApplyClearing(response) ==
  /\ IF Succeeded(response)
     THEN /\ results' = response.variations
          /\ UNCHANGED error
     ELSE /\ error' = OrElse(response.message, FrontFallbackMessage)
          /\ results' = << >>
  /\ loading' = FALSE

\* Mutant: the service message is ignored.
frontApplyGenericMessage(response) ==
  /\ IF Succeeded(response)
     THEN /\ results' = response.variations
          /\ UNCHANGED error
     ELSE /\ error' = FrontFallbackMessage
          /\ UNCHANGED results
  /\ loading' = FALSE

\* The state written when the response of a front request arrives
\* (lines 72-76 and the finally clause).
frontApply(response) ==
  /\ IF Succeeded(response)
     THEN /\ results' = response.variations
          /\ UNCHANGED error
     ELSE /\ error' = OrElse(response.message, FrontFallbackMessage)
          /\ UNCHANGED results
  /\ loading' = FALSE

\* Mutant: a response that did not succeed makes the call issue its request
\* again (at most three times).
frontResponseRetrying(i, response) ==
  /\ frontCalls[i].pc = "request"
  /\ IF Succeeded(response) \/ Len(requests) >= 6
     THEN /\ frontApply(response)
          /\ frontCalls' = Put(frontCalls, i,
               [frontCalls[i] EXCEPT !.pc = "done",
                  !.out = IF Succeeded(response) THEN "ok" ELSE "failed"])
          /\ UNCHANGED requests
     ELSE /\ requests' = Append(requests, requests[frontCalls[i].req])
          /\ frontCalls' = Put(frontCalls, i, [frontCalls[i] EXCEPT !.req = Len(requests) + 1])
          /\ UNCHANGED << results, error, loading >>
  /\ scen' = IF scen.st = "front" /\ scen.fc = i /\ Succeeded(response)
             THEN [scen EXCEPT !.st = "frontOk", !.front = response.variations]
             ELSE ScenNone
  /\ UNCHANGED << eng, fn, uploadedImage, uploadedFile, anglesLoading, prompt,
                  pendingReads, nFiles, angleCalls >>

\* await ApiService.generateHaircuts({prompt: promptText, imageData}) resolves
\* with response.
frontResponseWith(i, response) ==
  /\ frontCalls[i].pc = "request"
  /\ frontApply(response)
  /\ frontCalls' = Put(frontCalls, i,
       [frontCalls[i] EXCEPT !.pc = "done",
          !.out = IF Succeeded(response) THEN "ok" ELSE "failed"])
  /\ scen' = IF scen.st = "front" /\ scen.fc = i /\ Succeeded(response)
             THEN [scen EXCEPT !.st = "frontOk", !.front = response.variations]
             ELSE ScenNone
  /\ UNCHANGED << eng, fn, uploadedImage, uploadedFile, anglesLoading, prompt,
                  pendingReads, nFiles, angleCalls, requests >>

\* The values ApiService.generateHaircuts can resolve with for a request.
Responses(req, isAngles) == { generateHaircuts(o) : o \in FetchOutcomes(req, isAngles) }

frontResponse(i) ==
  \E response \in Responses(frontCalls[i].req, FALSE) : frontResponseWith(i, response)

\* --------------------------------------------------------- generateAngles
\* handleGenerateAngles(), up to its first await.  The closure reads the
\* uploadedFile and the prompt of the render it was created in.
handleGenerateAngles ==
  IF uploadedFile = Null \/ prompt = ""
  THEN /\ angleCalls' = Append(angleCalls,
            [file |-> NewFile([name |-> <<>>, type |-> "", size |-> 0], 0),
             prompt |-> prompt, req |-> 0, pc |-> "done", out |-> "noop"])
       /\ scen' = ScenNone
       /\ UNCHANGED << eng, fn, uploadedImage, uploadedFile, results, loading, anglesLoading, error,
                       prompt, pendingReads, nFiles, frontCalls, requests >>
  ELSE /\ anglesLoading' = TRUE
       /\ error' = Null
       /\ angleCalls' = Append(angleCalls,
            [file |-> uploadedFile[1], prompt |-> prompt, req |-> 0, pc |-> "encode",
             out |-> "pending"])
       /\ scen' = IF scen.st = "frontOk"
                  THEN [scen EXCEPT !.st = "angles", !.ac = Len(angleCalls) + 1]
                  ELSE ScenNone
       /\ UNCHANGED << eng, fn, uploadedImage, uploadedFile, results, loading, prompt,
                       pendingReads, nFiles, frontCalls, requests >>

\* The "Add Side & Back Views" button of ResultsDisplay: rendered by Home
\* while there is a preview, and by ResultsDisplay when it is not loading,
\* has results, and hasFrontResult && !hasAngles && !anglesLoading.
anglesClick ==
  /\ uploadedImage # Null
  /\ ~loading
  /\ Len(results) # 0
  /\ hasFrontResult /\ ~hasAngles /\ ~anglesLoading
  /\ Len(angleCalls) < MaxAngleCalls
  /\ handleGenerateAngles

ScenAnglesStep(i) == IF scen.st = "angles" /\ scen.ac = i THEN scen ELSE ScenNone

\* await fileToBase64(uploadedFile) resolves and the request is issued.
anglesEncoded(i) ==
  /\ angleCalls[i].pc = "encode"
  /\ requests' = Append(requests,
       Request(<<"angles", i>>, angleCalls[i].prompt, fileToBase64(angleCalls[i].file), TRUE))
  /\ angleCalls' = Put(angleCalls, i,
       [angleCalls[i] EXCEPT !.pc = "request", !.req = Len(requests) + 1])
  /\ scen' = ScenAnglesStep(i)
  /\ UNCHANGED << eng, fn, uploadedImage, uploadedFile, results, loading, anglesLoading, error,
                  prompt, pendingReads, nFiles, frontCalls >>

AnglesTransportMessage == Str("Failed to generate angle images. Please try again.")

AnglesFallbackMessage == Str("Failed to generate angle images")

\* await fileToBase64(uploadedFile) rejects: catch and finally of lines 103-107.
anglesEncodeFailed(i) ==
  /\ angleCalls[i].pc = "encode"
  /\ error' = AnglesTransportMessage
  /\ anglesLoading' = FALSE
  /\ angleCalls' = Put(angleCalls, i, [angleCalls[i] EXCEPT !.pc = "done", !.out = "failed"])
  /\ scen' = ScenNone
  /\ UNCHANGED << eng, fn, uploadedImage, uploadedFile, results, loading, prompt,
                  pendingReads, nFiles, frontCalls, requests >>

\* Mutant: the angle variations replace the result set.
mergeAnglesReplacing(prev, variations) == variations

\* setResults(prev => [...prev, ...response.variations])
mergeAngles(prev, variations) == prev \o variations

\* Mutant: a failed angles response clears the result set.
anglesApplyClearing(response) ==
  /\ IF Succeeded(response)
     THEN /\ results' = mergeAngles(results, response.variations)
          /\ UNCHANGED error
     ELSE /\ error' = OrElse(response.message, AnglesFallbackMessage)
          /\ results' = <<>>
  /\ anglesLoading' = FALSE

\* The state written when the response of an angles request arrives
\* (lines 97-102 and the finally clause).
anglesApply(response) ==
  /\ IF Succeeded(response)
     THEN /\ results' = mergeAngles(results, response.variations)
          /\ UNCHANGED error
     ELSE /\ error' = OrElse(response.message, AnglesFallbackMessage)
          /\ UNCHANGED results
  /\ anglesLoading' = FALSE

\* await ApiService.generateHaircuts({prompt, imageData, generateAngles: true})
\* resolves with response.
anglesResponseWith(i, response) ==
  /\ angleCalls[i].pc = "request"
  /\ anglesApply(response)
  /\ angleCalls' = Put(angleCalls, i,
       [angleCalls[i] EXCEPT !.pc = "done",
          !.out = IF Succeeded(response) THEN "ok" ELSE "failed"])
  /\ scen' = IF scen.st = "angles" /\ scen.ac = i /\ Succeeded(response)
             THEN [scen EXCEPT !.st = "done"]
             ELSE ScenNone
  /\ UNCHANGED << eng, fn, uploadedImage, uploadedFile, loading, prompt,
                  pendingReads, nFiles, frontCalls, requests >>

anglesResponse(i) ==
  \E response \in Responses(angleCalls[i].req, TRUE) : anglesResponseWith(i, response)

Next ==
  \/ handleFileSelect
  \/ changePhoto
  \/ readerOnload
  \/ submitClick
  \/ enterKeySubmit
  \/ \E i \in 1..Len(frontCalls) :
       \/ compressResolved(i)
       \/ compressRejected(i)
       \/ frontEncoded(i)
       \/ frontEncodeFailed(i)
       \/ frontResponse(i)
  \/ anglesClick
  \/ \E i \in 1..Len(angleCalls) :
       \/ anglesEncoded(i)
       \/ anglesEncodeFailed(i)
       \/ anglesResponse(i)

Spec == Init /\ [][Next]_vars

\* An awaited operation of a call in flight settles, one way or the other.
Settle ==
  \/ \E i \in 1..Len(frontCalls) :
       \/ compressResolved(i)
       \/ compressRejected(i)
       \/ frontEncoded(i)
       \/ frontEncodeFailed(i)
       \/ frontResponse(i)
  \/ \E i \in 1..Len(angleCalls) :
       \/ anglesEncoded(i)
       \/ anglesEncodeFailed(i)
       \/ anglesResponse(i)

\* The files being read are the two JPEG files of the catalogue, one at the
\* size threshold and one over it.
LivePicks == \A f \in pendingReads : f.type = "image/jpeg" /\ f.name[1] \in {"a", "h"}

\* The workflow with the picks and the prompt text narrowed to what decides
\* the path of a call: the size of the file.
NextLive ==
  \/ handleFileSelect /\ LivePicks'
  \/ changePhoto /\ LivePicks'
  \/ readerOnload
  \/ submitClick /\ prompt' # "buzz"
  \/ enterKeySubmit /\ prompt' # "buzz"
  \/ anglesClick
  \/ Settle

\* The workflow when every awaited platform or network operation settles.
\* The user is not obliged to do anything.
SpecLive == Init /\ [][NextLive]_vars /\ WF_vars(Settle)

\* The utilities on their own: one compressImage call or one
\* ApiService.generateHaircuts call, from any input.
NextLib ==
  \/ compressImage
  \/ compressImageAgain
  \/ loadImageResolved
  \/ loadImageRejected
  \/ toBlobCallback
  \/ generateHaircutsCall
  \/ validateFileCall
  \/ validatePromptCall
  \/ fileToBase64Call

SpecLib == Init /\ [][NextLib]_vars


\* ================================================================ claims
\* The upload the preview on screen comes from (0 when there is none).
CurrentImage == IF uploadedImage = Null THEN 0 ELSE uploadedImage[1].payload.src

\* The upload a variation of the result set was generated for.
GeneratedFor(v) == requests[v.image].imageData.src

FrontCallsInProgress == { i \in 1..Len(frontCalls) : frontCalls[i].pc # "done" }

AngleCallsInProgress == { i \in 1..Len(angleCalls) : angleCalls[i].pc # "done" }

RequestsOutstanding(calls) == { i \in 1..Len(calls) : calls[i].pc = "request" }

\* C1: a front response that arrives after another image was uploaded is
\* discarded: every front variation of the result set was generated for the
\* image now on screen.
C1_StaleFrontDiscarded ==
  \A k \in 1..Len(results) :
    results[k].angle = "front" => GeneratedFor(results[k]) = CurrentImage

\* C2: at most one generateFront call and at most one generateAngles call is
\* in progress, hence at most one request of each kind is outstanding; a call
\* made while one is in progress starts nothing.
C2_SingleFlight ==
  /\ Cardinality(FrontCallsInProgress) <= 1
  /\ Cardinality(AngleCallsInProgress) <= 1
  /\ Cardinality(RequestsOutstanding(frontCalls)) <= 1
  /\ Cardinality(RequestsOutstanding(angleCalls)) <= 1

\* C3: the result set holds at most one front variation, and a side or back
\* variation only together with a front variation.
C3_FrontUniqueAnglesAfterFront ==
  /\ Cardinality({ k \in 1..Len(results) : results[k].angle = "front" }) <= 1
  /\ hasAngles => hasFrontResult

\* C4: after a successful generateFront followed, with no other operation in
\* between, by a successful generateAngles, the result set holds exactly one
\* front entry, equal to the one the front response carried, and at least
\* one side or back entry.
C4_AnglesAppended ==
  scen.st = "done" =>
    /\ Cardinality({ k \in 1..Len(results) : results[k].angle = "front" }) = 1
    /\ \E k \in 1..Len(results) : results[k].angle \in {"side", "back"}
    /\ Len(scen.front) = 1
    /\ \A k \in 1..Len(results) : results[k].angle = "front" => results[k] = scen.front[1]

C4_Witness ==
  /\ scen.st = "done"
  /\ Len(results) = 3
  /\ results[1].angle = "front" /\ results[2].angle = "side" /\ results[3].angle = "back"

\* A front generation has succeeded for the image now on screen.
FrontSucceededForCurrentImage ==
  \E i \in 1..Len(frontCalls) :
    frontCalls[i].out = "ok" /\ frontCalls[i].file.id = CurrentImage

\* C5: a generateAngles call made while no front generation has succeeded
\* for the current image changes no state and issues no request.
C5_AnglesOnlyAfterFront ==
  [][ (Len(angleCalls') = Len(angleCalls) + 1 /\ ~FrontSucceededForCurrentImage)
      => /\ angleCalls'[Len(angleCalls')].out = "noop"
         /\ UNCHANGED << uploadedImage, uploadedFile, results, loading, anglesLoading,
                         error, prompt, requests >> ]_vars

\* The last four characters of the name are h-e-i-c or h-e-i-f in any case.
NameEndsInHeicOrHeif(name) ==
  /\ Len(name) >= 4
  /\ name[Len(name) - 3] \in {"h", "H"}
  /\ name[Len(name) - 2] \in {"e", "E"}
  /\ name[Len(name) - 1] \in {"i", "I"}
  /\ name[Len(name)] \in {"c", "C", "f", "F"}

\* C6: the upload of a file whose name ends in heic or heif (in any case)
\* sets the unsupported-format error and leaves the held image, the
\* preview, the result set and the prompt as they were.
C6_HeicRejected ==
  [][ \A f \in pendingReads :
        (pendingReads' = pendingReads \ {f} /\ NameEndsInHeicOrHeif(f.name))
        => /\ error' = Str("HEIC images are not supported. Please convert to jpg or png")
           /\ UNCHANGED << uploadedImage, uploadedFile, results, prompt >> ]_vars

\* The first file picked had such a name: it was rejected from NoImage, which
\* is still NoImage, with the error shown.
C6_Witness ==
  /\ uploadedImage = Null /\ uploadedFile = Null
  /\ error = Str("HEIC images are not supported. Please convert to jpg or png")
  /\ nFiles = 1
  /\ pendingReads = {}

\* C7: every accepted upload (a name that does not end in heic or heif)
\* replaces the held image and the preview, and leaves the result set
\* empty, the prompt empty and the error cleared.
C7_UploadResets ==
  [][ \A f \in pendingReads :
        (pendingReads' = pendingReads \ {f} /\ ~NameEndsInHeicOrHeif(f.name))
        => /\ uploadedFile' = <<f>>
           /\ uploadedImage' # Null /\ uploadedImage'[1].payload.src = f.id
           /\ results' = <<>>
           /\ prompt' = ""
           /\ error' = Null ]_vars

\* The second upload was accepted after a front generation for the first
\* had filled the result set, and after a later failure had set an error.
C7_Witness ==
  /\ uploadedFile # Null /\ uploadedFile[1].id = 2 /\ ~uploadedFile[1].compressed
  /\ \E i \in 1..Len(frontCalls) : frontCalls[i].out = "ok" /\ frontCalls[i].file.id = 1
  /\ \E i \in 1..Len(frontCalls) : frontCalls[i].out = "failed" /\ frontCalls[i].file.id = 1
  /\ FrontCallsInProgress = {} /\ AngleCallsInProgress = {}
  /\ results = <<>> /\ prompt = "" /\ error = Null

RequestsOf(call) == { k \in 1..Len(requests) : requests[k].call = call }

\* C9: when compressImage fails the call ends there: it has issued no
\* request and issues none later, the error is the prefixed failure text
\* and loading is false.
C9_CompressionFailureAborts ==
  [][ \A i \in 1..Len(frontCalls) :
        /\ \A e \in CompressErrors :
             compressRejectedWith(i, e)
             => /\ error' = <<"Image compression failed!, ",
                              IF e.isError THEN e.message ELSE e.string>>
                /\ loading' = FALSE
                /\ frontCalls'[i].pc = "done"
                /\ RequestsOf(<<"front", i>>)' = {}
        /\ frontCalls[i].pc = "done"
             => /\ frontCalls'[i].pc = "done"
                /\ RequestsOf(<<"front", i>>)' = RequestsOf(<<"front", i>>) ]_vars

C9_Witness ==
  /\ Len(frontCalls) = 1 /\ frontCalls[1].pc = "done" /\ frontCalls[1].out = "failed"
  /\ frontCalls[1].file.size > MAX_SIZE_BYTES
  /\ requests = <<>> /\ ~loading
  /\ error = <<"Image compression failed!, ", "could not generate canvas context">>

\* C10: a call that compresses issues its request only after compressImage
\* has resolved, and the request carries the bytes of the compressed copy.
C10_CompressionBeforeRequest ==
  \A k \in 1..Len(requests) :
    requests[k].call[1] = "front" =>
      LET c == frontCalls[requests[k].call[2]]
      IN /\ c.pc # "compress"
         /\ c.file.size > MAX_SIZE_BYTES
              => /\ c.fileToProcess.compressed
                 /\ requests[k].imageData.compressed
                 /\ requests[k].imageData.size = c.fileToProcess.size
                 /\ requests[k].imageData.src = c.file.id

C10_Witness ==
  \E k \in 1..Len(requests) :
    /\ requests[k].call[1] = "front"
    /\ frontCalls[requests[k].call[2]].file.size > MAX_SIZE_BYTES
    /\ requests[k].imageData.compressed


\* C11: a generateFront call invokes compressImage exactly when the held
\* file is longer than 524288 bytes, once and with the budget 471859.2 bytes
\* (0.9 x 524288); a file of at most 524288 bytes is encoded and sent as it
\* is held, with no compressImage call.
C11_CompressionOnlyOverThreshold ==
  \A i \in 1..Len(frontCalls) :
    LET c == frontCalls[i]
    IN /\ (c.compressCalls >= 1) <=> (c.file.size > 524288)
       /\ c.compressCalls >= 1 => (c.compressCalls = 1 /\ c.budget10 = 4718592)
       /\ (c.file.size <= 524288 /\ c.req # 0)
          => /\ c.fileToProcess = c.file
             /\ requests[c.req].imageData =
                  [src |-> c.file.id, compressed |-> c.file.compressed, size |-> c.file.size]

\* A call on a file of 524289 bytes has called compressImage and a call on a
\* file of exactly 524288 bytes has issued its request.
C11_Witness ==
  /\ \E i \in 1..Len(frontCalls) :
       frontCalls[i].file.size = 524289 /\ frontCalls[i].compressCalls = 1
  /\ \E i \in 1..Len(frontCalls) :
       frontCalls[i].file.size = 524288 /\ frontCalls[i].req # 0

\* C12: when compressImage returns for a source longer than the target
\* (0 < T < S), whatever the encoder produced, the returned file is at most
\* T bytes long or the quality is at most 0.1.
C12_WithinTargetOrAtFloor ==
  (eng.pc = "done" /\ 0 < eng.target10 /\ eng.target10 < 10 * eng.size)
  => \/ 10 * eng.result <= eng.target10
     \/ 10 * eng.quality[1] <= eng.quality[2]

\* compressImage has returned a file over the target, at the quality floor.
C12_Witness ==
  /\ eng.pc = "done"
  /\ 0 < eng.target10 /\ eng.target10 < 10 * eng.size
  /\ 10 * eng.result > eng.target10
  /\ 10 * eng.quality[1] <= eng.quality[2]

\* C13: compressImage makes at most 12 encode passes, also when every pass
\* stays over the target: the first pass has a quality of at most 0.8 and
\* each later pass 0.7 times the quality of the pass before it.
C13_BoundedPasses ==
  /\ eng.passes <= 12
  /\ eng.passes >= 1 => 5 * eng.quality[1] <= 4 * eng.quality[2]

\* compressImage has returned after passes that all stayed over the target,
\* starting from quality 0.8: seven passes, the last below the floor.
C13_Witness ==
  /\ eng.pc = "done"
  /\ eng.passes = 7
  /\ Len(eng.outs) = 7
  /\ \A k \in 1..7 : 10 * eng.outs[k] > eng.target10

\* C14: compressImage returns the output of the first encode pass that is
\* within the target and makes no pass after it.  For a source of 1,000,000
\* bytes and a target of 450,000 bytes, an encoder that gives 600,000 bytes
\* in the first pass and 300,000 in the second is asked for exactly two
\* passes and the file of 300,000 bytes is returned.
C14_FirstPassWithinTarget ==
  /\ \A k \in 1..(Len(eng.outs) - 1) : 10 * eng.outs[k] > eng.target10
  /\ (eng.pc = "done" /\ 10 * eng.result <= eng.target10)
     => /\ eng.passes = Len(eng.outs)
        /\ eng.result = eng.outs[Len(eng.outs)]
  /\ ( /\ eng.size = 1000000 /\ eng.target10 = 4500000
       /\ Len(eng.outs) >= 2 /\ eng.outs[1] = 600000 /\ eng.outs[2] = 300000 )
     => /\ eng.passes = 2
        /\ eng.pc = "done"
        /\ eng.result = 300000

\* The scenario of C14 has run to the return.
C14_Witness ==
  /\ eng.pc = "done"
  /\ eng.size = 1000000 /\ eng.target10 = 4500000
  /\ eng.outs = << 600000, 300000 >>

\* C15: in each platform failure case (the source is not decoded, there is
\* no 2D context, the encoder gives no blob) compressImage ends in failure,
\* delivered to its caller as a rejection with the error of the case; it is
\* never left pending.
C15_PlatformFailureRejects ==
  /\ eng.pc # "pending"
  /\ eng.fault # "none" => eng.pc = "rejected"
  /\ eng.fault = "context" => eng.error.message = "could not generate canvas context"
  /\ eng.fault = "blob" => eng.error.message = "could not generate blob from canvas"

C17_NoAutomaticRetry ==
  /\ [] ( /\ \A i \in 1..Len(frontCalls) :
               /\ frontCalls[i].compressCalls <= 1
               /\ Cardinality(RequestsOf(<< "front", i >>)) <= 1
          /\ \A i \in 1..Len(angleCalls) :
               Cardinality(RequestsOf(<< "angles", i >>)) <= 1 )
  /\ [][ /\ \A i \in 1..Len(frontCalls) :
              /\ frontCalls[i].pc = "done" => frontCalls'[i] = frontCalls[i]
              /\ frontCalls[i].pc # "compress" => frontCalls'[i].pc # "compress"
         /\ \A i \in 1..Len(angleCalls) :
              angleCalls[i].pc = "done" => angleCalls'[i] = angleCalls[i]
         /\ requests' # requests
            => /\ Len(requests') = Len(requests) + 1
               /\ SubSeq(requests', 1, Len(requests)) = requests
               /\ LET r == requests'[Len(requests')]
                      c == IF r.call[1] = "front" THEN frontCalls[r.call[2]]
                           ELSE angleCalls[r.call[2]]
                  IN c.pc = "encode" /\ c.req = 0 /\ c.out = "pending"
         /\ Len(frontCalls') # Len(frontCalls) => (submitClick \/ enterKeySubmit)
         /\ Len(angleCalls') # Len(angleCalls) => anglesClick ]_vars

\* A generateFront call on a file over the threshold has compressed, issued
\* its request and failed; the user has submitted again and the second call
\* has issued the only other front request.
C17_Witness ==
  /\ Len(frontCalls) = 2
  /\ frontCalls[1].compressCalls = 1
  /\ frontCalls[1].out = "failed" /\ frontCalls[1].req # 0
  /\ frontCalls[2].req # 0
  /\ Len(requests) = 2

\* C18: a generateAngles call that fails (the service reports failure, the
\* response has no variation, or the transport or the encoding fails) sets
\* the error, puts anglesLoading to false and leaves the result set as it
\* was, so that a front result shown before is still shown.
C18_AnglesFailureKeepsResults ==
  [][ \A i \in 1..Len(angleCalls) :
        (angleCalls[i].pc \in {"encode", "request"} /\ angleCalls'[i].pc = "done") =>
        /\ anglesEncodeFailed(i)
           => /\ results' = results
              /\ anglesLoading' = FALSE
              /\ error' = Str("Failed to generate angle images. Please try again.")
        /\ \A response \in Responses(angleCalls[i].req, TRUE) :
             ((~response.success \/ Len(response.variations) = 0)
              /\ anglesResponseWith(i, response))
             => /\ results' = results
                /\ hasFrontResult => hasFrontResult'
                /\ anglesLoading' = FALSE
                /\ error' = IF response.message \notin {Null, Str("")}
                            THEN response.message
                            ELSE Str("Failed to generate angle images") ]_vars

\* A generateAngles call has failed after its request, with the front result
\* still in the result set.
C18_Witness ==
  /\ \E i \in 1..Len(angleCalls) :
       angleCalls[i].out = "failed" /\ angleCalls[i].req # 0
  /\ hasFrontResult
  /\ ~anglesLoading
  /\ error # Null

\* C19: ApiService.generateHaircuts never throws.  Its promise is fulfilled
\* whatever fetch and response.json() do, and for every transport failure (a
\* status that is not 2xx, a rejected fetch, a body that is not JSON) the
\* value has success = false, no variation and a message.
C19_NeverThrows ==
  \A k \in 1..Len(fn) :
    fn[k].op = "generateHaircuts" =>
    /\ fn[k].promise.state = "fulfilled"
    /\ fn[k].o.kind # "json"
       => /\ fn[k].promise.value.success = FALSE
          /\ fn[k].promise.value.variations = <<>>
          /\ fn[k].promise.value.message \notin {Null, Str("")}

\* generateHaircuts has been called with a body that is not JSON.
C19_Witness ==
  /\ fn # FnIdle
  /\ fn[1].op = "generateHaircuts"
  /\ fn[1].o.kind = "badjson"
  /\ fn[1].promise.value.success = FALSE

\* C20: ApiService.generateHaircuts returns the rate-limit message for a
\* status 429, the server-error message for a status 5xx and the
\* connectivity message for a network failure, three different messages.
C20_StatusMessages ==
  \A k \in 1..Len(fn) :
    fn[k].op = "generateHaircuts" =>
    LET o == fn[k].o
        message == fn[k].promise.value.message
    IN /\ (o.kind = "http" /\ o.status = 429)
          => message = Str("Too many requests. Please wait a minute before trying again.")
       /\ (o.kind = "http" /\ o.status >= 500)
          => message = Str("Server error. Please try again.")
       /\ o.kind = "TypeError"
          => message = Str("Connection failed. Please check your internet and try again.")

\* C21: a response with success = true and no variation is a failure.  The
\* call that receives it stores nothing in the result set and sets the
\* error to the message of the service when there is one, else to the
\* fallback text of the call (front or angles).
C21_EmptyResultIsFailure ==
  [][ /\ \A i \in 1..Len(frontCalls) :
          (frontCalls[i].pc = "request" /\ frontCalls'[i].pc = "done") =>
          \A response \in Responses(frontCalls[i].req, FALSE) :
            (response.success /\ response.variations = <<>> /\ frontResponseWith(i, response))
            => /\ results' = results
               /\ frontCalls'[i].out = "failed"
               /\ error' = IF response.message \notin {Null, Str("")}
                           THEN response.message
                           ELSE Str("Failed to generate reference image")
     /\ \A i \in 1..Len(angleCalls) :
          (angleCalls[i].pc = "request" /\ angleCalls'[i].pc = "done") =>
          \A response \in Responses(angleCalls[i].req, TRUE) :
            (response.success /\ response.variations = <<>> /\ anglesResponseWith(i, response))
            => /\ results' = results
               /\ angleCalls'[i].out = "failed"
               /\ error' = IF response.message \notin {Null, Str("")}
                           THEN response.message
                           ELSE Str("Failed to generate angle images") ]_vars

\* A front call and an angles call have both ended on an empty result, the
\* second with the fallback text.
C21_Witness ==
  /\ \E i \in 1..Len(frontCalls) : frontCalls[i].out = "failed" /\ frontCalls[i].req # 0
  /\ \E i \in 1..Len(angleCalls) : angleCalls[i].out = "failed" /\ angleCalls[i].req # 0
  /\ error = Str("Failed to generate angle images")

\* C22: generateFront never replaces the held source image.  The held file
\* is the file the user uploaded, never a compressed copy, and every
\* generateFront and generateAngles call starts from the uploaded file.
C22_HeldImageNeverCompressed ==
  /\ uploadedFile # Null => ~uploadedFile[1].compressed
  /\ \A i \in 1..Len(frontCalls) : ~frontCalls[i].file.compressed
  /\ \A i \in 1..Len(angleCalls) : ~angleCalls[i].file.compressed

\* C23: a generateAngles call compresses nothing and issues one request, with
\* generateAngles = true, the transport encoding of the image held when the
\* call is made, and the prompt of the front generation that succeeded (the
\* one whose front result is shown).
C23_AnglesRequest ==
  /\ [] ( \A i \in 1..Len(angleCalls) :
            LET c == angleCalls[i]
            IN /\ Cardinality(RequestsOf(<< "angles", i >>)) <= 1
               /\ c.pc \in {"encode", "request", "done"}
               /\ c.req # 0
                  => /\ requests[c.req].call = << "angles", i >>
                     /\ requests[c.req].generateAngles = TRUE
                     /\ requests[c.req].imageData =
                          [src |-> c.file.id, compressed |-> c.file.compressed,
                           size |-> c.file.size] )
  /\ [][ \A i \in 1..Len(angleCalls) :
           (angleCalls[i].pc = "encode" /\ angleCalls'[i].pc = "request")
           => LET r == requests'[Len(requests')]
              IN /\ Len(requests') = Len(requests) + 1
                 /\ r.call = << "angles", i >>
                 /\ \E j \in 1..Len(requests) :
                      /\ requests[j].call[1] = "front"
                      /\ frontCalls[requests[j].call[2]].out = "ok"
                      /\ r.prompt = requests[j].prompt ]_vars

\* C24: after a failed generateFront the user can retry.  The new submit
\* clears the error and starts a call, the call issues a new request with the
\* prompt submitted, and when the response succeeds the front result is
\* stored and no error is set.
C24_RetryAfterFailure ==
  [][ /\ ( /\ Len(frontCalls') = Len(frontCalls) + 1
           /\ uploadedFile # Null
           /\ \E j \in 1..Len(frontCalls) : frontCalls[j].out = "failed" )
         => /\ error' = Null
            /\ loading' = TRUE
            /\ frontCalls'[Len(frontCalls')].out = "pending"
     /\ \A i \in 1..Len(frontCalls) :
          (\E j \in 1..(i - 1) : frontCalls[j].out = "failed") =>
          /\ (frontCalls[i].pc = "encode" /\ frontCalls'[i].pc = "request")
             => /\ Len(requests') = Len(requests) + 1
                /\ requests'[Len(requests')].call = << "front", i >>
                /\ requests'[Len(requests')].prompt = frontCalls[i].promptText
          /\ (frontCalls[i].pc = "request" /\ frontCalls'[i].pc = "done")
             => \A response \in Responses(frontCalls[i].req, FALSE) :
                  ( /\ response.success /\ Len(response.variations) > 0
                    /\ frontResponseWith(i, response) )
                  => /\ results' = response.variations
                     /\ error' = error
                     /\ loading' = FALSE ]_vars

\* The first generateFront has failed after its request; the user has
\* submitted again, and the second call has succeeded: no error, the front
\* result stored.
C24_Witness ==
  /\ Len(frontCalls) = 2
  /\ frontCalls[1].out = "failed" /\ frontCalls[1].req # 0
  /\ frontCalls[2].out = "ok" /\ frontCalls[2].req > frontCalls[1].req
  /\ error = Null
  /\ hasFrontResult
  /\ ~loading

\* C26: validateFile returns null exactly when the declared type is one of
\* image/jpeg, image/jpg, image/png, image/webp and the size is from 1000
\* bytes to 10 x 1024 x 1024 bytes, both included (1024 bytes is accepted as
\* well); otherwise it returns the message of the first check that fails,
\* in the order type, too large, too small.
C26_ValidateFile ==
  \A k \in 1..Len(fn) :
    fn[k].op = "validateFile" =>
    LET file == fn[k].file
        typeOk == file.type \in {"image/jpeg", "image/jpg", "image/png", "image/webp"}
    IN /\ fn[k].out = Null <=> (typeOk /\ file.size >= 1000 /\ file.size <= 10485760)
       /\ ~typeOk => fn[k].out = Str("Please select a JPG, PNG, or WebP image file.")
       /\ (typeOk /\ file.size > 10485760)
          => fn[k].out = Str("File size too large. Please select an image under 10MB.")
       /\ (typeOk /\ file.size < 1000)
          => fn[k].out = Str("File appears to be too small or corrupted.")
       /\ (typeOk /\ file.size \in {1000, 1024, 10485760}) => fn[k].out = Null

\* validateFile has accepted a PNG file of exactly 10 MB.
C26_Witness ==
  /\ fn # FnIdle
  /\ fn[1].op = "validateFile"
  /\ fn[1].file = [type |-> "image/png", size |-> 10485760]
  /\ fn[1].out = Null

IsBlank(text) == \A i \in 1..Len(text) : text[i] \in {" ", "\t", "\n"}

ContainsIgnoringCase(text, word) ==
  \E i \in 1..(Len(text) - Len(word) + 1) :
    toLowerCase(SubSeq(text, i, i + Len(word) - 1)) = word

\* C27: validatePrompt returns the 'please enter a description' message for
\* a text that is empty after trimming; else the 'too long' message for a
\* text of more than 500 characters (500 is accepted); else the 'use a
\* different description' message for a text that contains script,
\* javascript, html or css in any letter case; else null.
C27_ValidatePrompt ==
  \A k \in 1..Len(fn) :
    fn[k].op = "validatePrompt" =>
    LET text == fn[k].text
    IN fn[k].out =
         IF IsBlank(text)
           THEN Str("Please enter a description for your desired haircut.")
         ELSE IF Len(text) > 500
           THEN Str("Description is too long. Please keep it under 500 characters.")
         ELSE IF \E word \in { << "s", "c", "r", "i", "p", "t" >>,
                                << "j", "a", "v", "a", "s", "c", "r", "i", "p", "t" >>,
                                << "h", "t", "m", "l" >>,
                                << "c", "s", "s" >> } : ContainsIgnoringCase(text, word)
           THEN Str("Please use a different description for your haircut.")
         ELSE Null

\* validatePrompt has been called with 501 spaces and has asked for a
\* description.
C27_Witness ==
  /\ fn # FnIdle
  /\ fn[1].op = "validatePrompt"
  /\ Len(fn[1].text) = 501
  /\ fn[1].text[1] = " "
  /\ fn[1].out = Str("Please enter a description for your desired haircut.")

\* The characters of the prompt texts of the workflow.
PromptChars(p) ==
  IF p = "fade" THEN << "f", "a", "d", "e" >> ELSE << "b", "u", "z", "z" >>

\* C25: validation comes before acceptance.  Every file the workflow holds
\* as uploaded, and every file a generateFront call starts from, passes
\* validateFile, and every prompt given to generateFront passes
\* validatePrompt.
C25_ValidatedBeforeAccepted ==
  /\ (uploadedFile # Null /\ ~uploadedFile[1].compressed)
     => validateFile([type |-> uploadedFile[1].type, size |-> uploadedFile[1].size]) = Null
  /\ \A i \in 1..Len(frontCalls) :
       validatePrompt(PromptChars(frontCalls[i].promptText)) = Null

\* The text after the first comma of a text that has one.
AfterFirstComma(text) ==
  LET first == CHOOSE i \in 1..Len(text) :
                 text[i] = "," /\ \A j \in 1..(i - 1) : text[j] # ","
  IN SubSeq(text, first + 1, Len(text))

\* C28: fileToBase64 gives the transport encoding without a data-URL prefix.
\* For a reader result that starts with 'data:' it resolves with the text
\* after the first comma, for any other result with the result as it is,
\* and a reader error rejects it with 'Failed to read file'.
C28_FileToBase64 ==
  \A k \in 1..Len(fn) :
    fn[k].op = "fileToBase64" =>
    LET result == fn[k].reader.result
        promise == fn[k].promise
        isDataUrl == Len(result) >= 5 /\ SubSeq(result, 1, 5) = << "d", "a", "t", "a", ":" >>
    IN /\ (fn[k].reader.kind = "load" /\ isDataUrl)
          => /\ promise.state = "fulfilled"
             /\ promise.value = AfterFirstComma(result)
             /\ ~(Len(promise.value) >= 5
                   /\ SubSeq(promise.value, 1, 5) = << "d", "a", "t", "a", ":" >>)
       /\ (fn[k].reader.kind = "load" /\ ~isDataUrl)
          => (promise.state = "fulfilled" /\ promise.value = result)
       /\ fn[k].reader.kind = "error"
          => (promise.state = "rejected" /\ promise.message = "Failed to read file")

\* fileToBase64 has resolved with the payload of a JPEG data URL.
C28_Witness ==
  /\ fn # FnIdle
  /\ fn[1].op = "fileToBase64"
  /\ fn[1].reader.result = << "d", "a", "t", "a", ":", "i", "m", "a", "g", "e", "/", "j", "p", "e", "g", ";", "b", "a", "s", "e", "6", "4", ",", "t", "e", "s", "t", "d", "a", "t", "a" >>
  /\ fn[1].promise.value = << "t", "e", "s", "t", "d", "a", "t", "a" >>

\* C29: compressImage called again on its own output, with the same target,
\* returns a file that is not longer than that output.
C29_RecompressionNoLonger ==
  (eng.pc = "done" /\ eng.first # 0) => eng.result <= eng.first

\* C30: of several uploads started in quick succession the last one started
\* is the one held in the end, in whatever order the reads complete: a read
\* that completes never puts an upload started earlier in the place of one
\* started later.
C30_LastUploadStartedWins ==
  [][ ( /\ Cardinality(pendingReads') < Cardinality(pendingReads)
        /\ uploadedFile # Null
        /\ uploadedFile' # Null )
      => uploadedFile'[1].id >= uploadedFile[1].id ]_vars

\* The ratio target / source size of the compress call in hand, as the two
\* sides of a comparison with n / d: Ratio >= n / d is RatioAtLeast(n, d).
RatioAtLeast(n, d) == d * eng.target10 >= n * 10 * eng.size

\* C31: within one compress call the scale is the same in every encode pass,
\* and the quality of each pass after the first is exactly 0.7 times the
\* quality of the pass before, so strictly lower, the quality being above 0.
C31_ScaleFixedQualityStep ==
  [][ (eng.pc = "encode" /\ eng'.passes = eng.passes + 1)
      => /\ eng'.scaleSq = eng.scaleSq
         /\ eng.quality = Rat(10 * eng'.quality[1], 7 * eng'.quality[2])
         /\ 0 < eng.quality[1] ]_vars

C31_Witness ==
  /\ eng.passes = 3
  /\ eng.scaleSq = << 9, 10 >>
  /\ eng.quality = << 1323, 4000 >>

\* C32: the search is seeded from ratio = target / source size: the quality
\* of the first pass is min(0.8, 1.5 * ratio), the scale is 1 exactly when
\* ratio >= 0.5 and below 1 otherwise, and the quality and the scale of
\* every pass lie in (0, 1].
C32_Seed ==
  eng.passes >= 1 =>
    /\ (eng.passes = 1 /\ eng.pc # "rejected") =>
         eng.quality = IF RatioAtLeast(8, 15) THEN << 4, 5 >>
                       ELSE Rat(3 * eng.target10, 20 * eng.size)
    /\ eng.scaleSq = << 1, 1 >> <=> RatioAtLeast(1, 2)
    /\ 0 < eng.scaleSq[1] /\ eng.scaleSq[1] <= eng.scaleSq[2]
    /\ 0 < eng.quality[1] /\ eng.quality[1] <= eng.quality[2]

C32_Witness ==
  /\ eng.passes = 1
  /\ eng.size = 10485760
  /\ eng.quality = << 27, 400 >>
  /\ eng.scaleSq = << 9, 100 >>

\* C33: compress never short-circuits: whatever the target, also one at or
\* above the source size, a call that returns has made at least one encode
\* pass and returns what the last pass encoded.
C33_NoShortCircuit ==
  eng.pc = "done" =>
    /\ eng.passes >= 1
    /\ Len(eng.outs) = eng.passes
    /\ eng.result = eng.outs[Len(eng.outs)]

C33_Witness ==
  /\ eng.pc = "done"
  /\ eng.target10 >= 10 * eng.size
  /\ eng.passes = 1
  /\ eng.result = eng.outs[1]

\* C34: when the ratio target / source size is at most 1/15, so the seed
\* quality at most 0.1, compress makes exactly one encode pass, at the seed
\* quality, and returns its output whatever its size.
C34_OnePassAtFloor ==
  (eng.passes >= 1 /\ 15 * eng.target10 <= 10 * eng.size) =>
    /\ eng.passes = 1
    /\ eng.quality = Rat(3 * eng.target10, 20 * eng.size)
    /\ eng.pc = "done" => eng.outs = << eng.result >>

C34_Witness ==
  /\ eng.pc = "done"
  /\ eng.size = 10485760
  /\ eng.target10 = 4718592
  /\ eng.passes = 1
  /\ 10 * eng.result > eng.target10

\* C35: the preview and the held file come from the same upload: the held
\* file is the file of the upload the preview shows, or a compressed copy of
\* that file, also when an image is uploaded while a generateFront call for
\* the image before is suspended in compression.
C35_PreviewAndFileSameUpload ==
  /\ uploadedImage = Null <=> uploadedFile = Null
  /\ uploadedFile # Null => uploadedFile[1].id = CurrentImage

\* The front calls whose response produced a front variation of the result
\* set.
FrontCallsShown ==
  { requests[results[k].image].call[2] :
      k \in { j \in 1..Len(results) : results[j].angle = "front" } }

\* C36: every angles request carries the prompt of the generateFront call
\* whose response produced the front variation in the result set, also after
\* a later generateFront call with another prompt has failed.
C36_AnglesPromptOfShownFront ==
  [][ \A i \in 1..Len(angleCalls) :
        (angleCalls[i].pc = "encode" /\ angleCalls'[i].pc = "request")
        => \A c \in FrontCallsShown :
             requests'[Len(requests')].prompt = frontCalls[c].promptText ]_vars

\* C37: angle variations are merged only into the result set they were
\* requested for.  When the response of an angles request changes the result
\* set, the set held a front variation generated for the image of that
\* request, by a front request issued before the angles request: it was
\* neither emptied by an upload nor replaced by a newer front generation
\* since the angles request was issued.
C37_AnglesMergedIntoOwnResults ==
  [][ \A i \in 1..Len(angleCalls) :
        ( /\ angleCalls[i].pc = "request"
          /\ angleCalls'[i].pc = "done"
          /\ results' # results )
        => \E k \in 1..Len(results) :
             /\ results[k].angle = "front"
             /\ GeneratedFor(results[k]) = angleCalls[i].file.id
             /\ results[k].image < angleCalls[i].req ]_vars

\* C38: the loading flag is true in exactly the states where a generateFront
\* call is in progress, and anglesLoading in exactly the states where a
\* generateAngles call is in progress, under any interleaving of uploads,
\* calls and responses.
C38_FlagsTrackCalls ==
  /\ loading <=> FrontCallsInProgress # {}
  /\ anglesLoading <=> AngleCallsInProgress # {}

\* C39: a generateFront call that ends in failure of any kind leaves the
\* result set as it was when the call started: the start of a call and every
\* step of a call other than the arrival of a response that succeeded write
\* nothing to the result set, so the results of an earlier successful
\* generation survive a failed regeneration.
C39_FailedFrontKeepsResults ==
  [][ /\ Len(frontCalls') > Len(frontCalls) => results' = results
      /\ \A i \in 1..Len(frontCalls) :
           (frontCalls'[i] # frontCalls[i] /\ frontCalls'[i].out # "ok")
           => results' = results ]_vars

C39_Witness ==
  /\ Len(frontCalls) = 2
  /\ frontCalls[1].out = "ok"
  /\ frontCalls[2].out = "failed"
  /\ frontCalls[2].req > frontCalls[1].req
  /\ loading = FALSE
  /\ hasFrontResult
  /\ \A k \in 1..Len(results) : results[k].image = frontCalls[1].req

====
